---- MODULE Spec2Model ----
(***************************************************************************)
(* Model of gnuradio-meta-rs: the PMT tag parser (pmt.rs), the header      *)
(* model (header.rs), the lazy byte -> header index and the sample         *)
(* read/seek engine (core.rs), for a DettachedHeader reader.               *)
(*                                                                         *)
(* Time is counted in ticks of 1/20 s, so that the sample durations of the *)
(* modelled rates (1 Hz, 2 Hz) and the 0.1 x duration tolerance are whole  *)
(* numbers.                                                                *)
(***************************************************************************)
EXTENDS Integers, Sequences, FiniteSets, TLC

VARIABLES
    hfile,      \* header stream: the header records it holds, in order
    hpos,       \* header stream position: records consumed so far
    store,      \* HeaderStorage.store: key byte -> Header
    pos,        \* stream position of the sample source (the read cursor)
    res,        \* what the last call did (arguments, result, trace of the call)
    hist,       \* keys in the order add_header_for_byte inserted them
    pstream,    \* tag parser: the bytes of the stream under parse
    pres        \* tag parser: outcome of the last parse call

vars == <<hfile, hpos, store, pos, res, hist, pstream, pres>>

(* ------------------------------ bounds ------------------------------- *)
MaxBytes == 2
MaxBuf == 3

(* --------------------------- small helpers --------------------------- *)
Max(S) == CHOOSE x \in S : \A y \in S : y <= x

Min2(a, b) == IF a <= b THEN a ELSE b

AbsDiff(a, b) == IF a >= b THEN a - b ELSE b - a

None == [k |-> "None"]

Some(v) == [k |-> "Some", v |-> v]

(* ----------------------------- pmt parser ---------------------------- *)
\* Results of the parsing functions: the value and the reader position (bytes
\* consumed so far) on success, the ParseError variant on failure, or a panic.
POk(v, p) == [k |-> "Ok", v |-> v, pos |-> p]

PErr(e, p) == [k |-> "Err", e |-> e, pos |-> p]

PPanic(p) == [k |-> "Panic", pos |-> p]

\* Read::read_exact behind byteorder's read_u16/read_u32/read_i32/read_f64/read_u64:
\* n bytes or an io::Error that leaves the reader at the end of the stream.
read_exact(s, p, n) ==
    IF p + n > Len(s) THEN PErr("IoError", Len(s))
    ELSE POk(SubSeq(s, p + 1, p + n), p + n)

\* The value of big-endian bytes.
RECURSIVE from_be(_)
from_be(b) ==
    IF b = <<>> THEN 0
    ELSE from_be(SubSeq(b, 1, Len(b) - 1)) * 256 + b[Len(b)]

\* Two's complement value of four big-endian bytes.
from_be_i32(b) == from_be(<<IF b[1] >= 128 THEN b[1] - 256 ELSE b[1]>> \o Tail(b))

\* parse_symbol once the length field is read: the buffer handed to read() is
\* Vec::with_capacity(len).as_mut_slice(), a slice of length 0, so bytes_read is 0
\* and the text is the empty string.
parse_symbol_len(r) ==
    IF r.k # "Ok" THEN r
    ELSE IF 0 # from_be(r.v) THEN PErr("UnexpectedEOF", r.pos)
    ELSE POk([t |-> "Symbol", s |-> <<>>], r.pos)

parse_symbol(s, p) == parse_symbol_len(read_exact(s, p, 2))

expect_byte(s, p) ==
    IF p >= Len(s) THEN PErr("UnexpectedEOF", p)
    ELSE POk(s[p + 1], p + 1)

RECURSIVE parse(_, _)
RECURSIVE parse_dict_inner(_, _, _)
RECURSIVE parse_tuple_loop(_, _, _, _)

parse_pair_second(first, second) ==
    IF second.k # "Ok" THEN second
    ELSE POk(<<first.v, second.v>>, second.pos)

parse_pair_first(s, first) ==
    IF first.k # "Ok" THEN first
    ELSE parse_pair_second(first, parse(s, first.pos))

parse_pair_inner(s, p) == parse_pair_first(s, parse(s, p))

parse_pair_from(ab) ==
    IF ab.k # "Ok" THEN ab
    ELSE POk([t |-> "Pair", a |-> ab.v[1], b |-> ab.v[2]], ab.pos)

parse_pair(s, p) == parse_pair_from(parse_pair_inner(s, p))

\* HashMap::insert.
dict_insert(tgt, name, v) ==
    [x \in (DOMAIN tgt) \cup {name} |-> IF x = name THEN v ELSE tgt[x]]

parse_dict_next(s, tgt, next_byte) ==
    IF next_byte.k # "Ok" THEN next_byte
    ELSE IF next_byte.v = 6 THEN POk(tgt, next_byte.pos)
    ELSE IF next_byte.v = 9 THEN parse_dict_inner(s, next_byte.pos, tgt)
    ELSE PErr("MalformedDict", next_byte.pos)

parse_dict_entry(s, tgt, pair) ==
    IF pair.k # "Ok" THEN pair
    ELSE IF pair.v[1].t = "Symbol"
    THEN parse_dict_next(s, dict_insert(tgt, pair.v[1].s, pair.v[2]),
                         expect_byte(s, pair.pos))
    ELSE PErr("MalformedDict", pair.pos)

parse_dict_head(s, tgt, b) ==
    IF b.k # "Ok" THEN b
    ELSE IF b.v # 7 THEN PErr("MalformedDict", b.pos)
    ELSE parse_dict_entry(s, tgt, parse_pair_inner(s, b.pos))

parse_dict_inner(s, p, tgt) == parse_dict_head(s, tgt, expect_byte(s, p))

parse_dict_from(r) ==
    IF r.k # "Ok" THEN r ELSE POk([t |-> "Dict", m |-> r.v], r.pos)

parse_dict(s, p) == parse_dict_from(parse_dict_inner(s, p, <<>>))

parse_tuple_push(s, left, vec, r) ==
    IF r.k # "Ok" THEN r
    ELSE parse_tuple_loop(s, r.pos, left - 1, Append(vec, r.v))

parse_tuple_loop(s, p, left, vec) ==
    IF left = 0 THEN POk([t |-> "Tuple", items |-> vec], p)
    ELSE parse_tuple_push(s, left, vec, parse(s, p))

parse_tuple_num(s, num) ==
    IF num.k # "Ok" THEN num
    ELSE parse_tuple_loop(s, num.pos, from_be(num.v), <<>>)

parse_tuple(s, p) == parse_tuple_num(s, read_exact(s, p, 4))

\* A fixed-width value: tag t over the value conv makes of the bytes read.
parse_int32(r) ==
    IF r.k # "Ok" THEN r ELSE POk([t |-> "Int32", i |-> from_be_i32(r.v)], r.pos)

\* A Double is held as its IEEE 754 bit pattern, which f64::from_bits maps one to
\* one onto the values that are not NaN.
parse_double(r) ==
    IF r.k # "Ok" THEN r ELSE POk([t |-> "Double", bits |-> r.v], r.pos)

parse_uint64(r) ==
    IF r.k # "Ok" THEN r ELSE POk([t |-> "UInt64", u |-> from_be(r.v)], r.pos)

parse_tag(s, p, kind) ==
    CASE kind = 0 -> POk([t |-> "Bool", b |-> TRUE], p)
      [] kind = 1 -> POk([t |-> "Bool", b |-> FALSE], p)
      [] kind = 2 -> parse_symbol(s, p)
      [] kind = 3 -> parse_int32(read_exact(s, p, 4))
      [] kind = 4 -> parse_double(read_exact(s, p, 8))
      [] kind = 6 -> POk([t |-> "Null"], p)
      [] kind = 7 -> parse_pair(s, p)
      [] kind = 9 -> parse_dict(s, p)
      [] kind = 11 -> parse_uint64(read_exact(s, p, 8))
      [] kind = 12 -> parse_tuple(s, p)
      [] OTHER -> PPanic(p)

parse_from(s, byte) ==
    IF byte.k # "Ok" THEN byte ELSE parse_tag(s, byte.pos, byte.v)

parse(s, p) == parse_from(s, expect_byte(s, p))

\* parse_maybe_eof taking an end of the stream met at any depth of the record for
\* a clean end of the stream.
parse_maybe_eof_lenient_tag(r) ==
    IF r.k = "Err" /\ r.e = "UnexpectedEOF" THEN POk(None, r.pos)
    ELSE IF r.k # "Ok" THEN r
    ELSE POk(Some(r.v), r.pos)

parse_maybe_eof_tag(r) ==
    IF r.k # "Ok" THEN r ELSE POk(Some(r.v), r.pos)

parse_maybe_eof_from(s, p, byte) ==
    IF byte.k = "Err" /\ byte.e = "UnexpectedEOF" THEN POk(None, byte.pos)
    ELSE IF byte.k # "Ok" THEN byte
    ELSE parse_maybe_eof_tag(parse_tag(s, byte.pos, byte.v))

parse_maybe_eof(s, p) == parse_maybe_eof_from(s, p, expect_byte(s, p))

(* ------------------------------ header ------------------------------- *)
\* DataType::from_int: only code 0 is mapped; every other code is WrongDataType.
from_int(i) ==
    IF i = 0 THEN [k |-> "Ok", v |-> "Byte"] ELSE [k |-> "Err", e |-> "WrongDataType"]

\* 1.0 / samp_rate, in ticks.
samp_dur_of(rate) == 20 \div rate

\* Header::from_tags on a header Dict whose fields are all present and well typed.
from_tags(byte_in_file, r) ==
    LET dt == from_int(r.type) IN
    IF dt.k = "Err" THEN [k |-> "Err", e |-> dt.e]
    ELSE [k |-> "Ok",
          v |-> [samp_rate |-> r.rx_rate, samp_dur |-> samp_dur_of(r.rx_rate),
                 rx_time |-> r.rx_time, size |-> r.size, dtype |-> dt.v,
                 cplx |-> r.cplx, strt |-> r.strt, bytes |-> r.bytes,
                 abs_pos |-> r.strt, pos_in_file |-> byte_in_file]]

\* Bytes of one sample of a segment: element_size_bytes x (2 if complex else 1).
sample_width(h) == h.size * (IF h.cplx THEN 2 ELSE 1)

get_num_samples(h) == h.bytes \div sample_width(h)

get_sample_time(h, sample) == h.rx_time + sample * h.samp_dur

get_sample_duration(h) == h.samp_dur

get_sample_pos_of_byte(h, byte) == (byte - h.abs_pos) \div sample_width(h)

DataTypes == {"Byte", "Short", "Int", "Float", "Double"}

\* The conversion lattice restricted to the five base encodings.
converts_to_dtype(d, other) ==
    CASE d = "Byte" -> other \in {"Byte", "Short", "Int", "Float", "Double"}
      [] d = "Short" -> other \in {"Short", "Int", "Float", "Double"}
      [] d = "Int" -> other \in {"Int", "Float", "Double"}
      [] d = "Float" -> other \in {"Float", "Double"}
      [] d = "Double" -> other \in {"Float", "Double"}

Preserves == {"None", "Format", "Convertability", "SampleRate",
              "SampleRateAndConvertability", "All", "Segment"}

preserves_format(p) == p = "Format" \/ p = "All" \/ p = "Segment"

preserves_convertability(p) == p # "None" /\ p # "SampleRate"

preserves_samplerate(p) == p # "None" /\ p # "Format" /\ p # "Convertability"

\* is_compatible_with without its sample-rate comparison.
is_compatible_with_ignoring_rate(self, other, preserve) ==
    IF preserves_format(preserve) /\ other.dtype # self.dtype THEN FALSE
    ELSE IF preserves_convertability(preserve)
            /\ ~converts_to_dtype(other.dtype, self.dtype) THEN FALSE
    ELSE TRUE

\* is_compatible_with, were the exact-format levels content with a convertible dtype.
is_compatible_with_without_format(self, other, preserve) ==
    IF preserves_samplerate(preserve) /\ other.samp_rate # self.samp_rate THEN FALSE
    ELSE IF preserves_convertability(preserve)
            /\ ~converts_to_dtype(other.dtype, self.dtype) THEN FALSE
    ELSE TRUE

\* is_compatible_with, were the complex flag compared as part of the format.
is_compatible_with_matching_complex(self, other, preserve) ==
    IF preserves_samplerate(preserve) /\ other.samp_rate # self.samp_rate THEN FALSE
    ELSE IF preserves_format(preserve)
            /\ (other.dtype # self.dtype \/ other.cplx # self.cplx) THEN FALSE
    ELSE IF preserves_convertability(preserve)
            /\ ~converts_to_dtype(other.dtype, self.dtype) THEN FALSE
    ELSE TRUE

is_compatible_with(self, other, preserve) ==
    IF preserves_samplerate(preserve) /\ other.samp_rate # self.samp_rate THEN FALSE
    ELSE IF preserves_format(preserve) /\ other.dtype # self.dtype THEN FALSE
    ELSE IF preserves_convertability(preserve)
            /\ ~converts_to_dtype(other.dtype, self.dtype) THEN FALSE
    ELSE TRUE

\* is_continuation_of, were the tolerance a tenth of self's sample duration.
is_continuation_of_own_tolerance(self, other) ==
    LET last_sample_t == IF get_num_samples(other) = 0 THEN other.rx_time
                         ELSE get_sample_time(other, get_num_samples(other) - 1)
        diff == AbsDiff(self.rx_time, last_sample_t)
    IN 10 * diff <= get_sample_duration(self)

\* diff <= 0.1 * other.get_sample_duration(), in ticks.
is_continuation_of(self, other) ==
    LET last_sample_t == IF get_num_samples(other) = 0 THEN other.rx_time
                         ELSE get_sample_time(other, get_num_samples(other) - 1)
        diff == AbsDiff(self.rx_time, last_sample_t)
    IN 10 * diff <= get_sample_duration(other)

\* reads_directly_to comparing T with the scalar type whatever the complex flag.
reads_directly_to_ignoring_complex(d, complex, T) ==
    CASE d = "Byte" -> T = "i8"
      [] d = "Short" -> T = "i16"
      [] d = "Int" -> T = "i32"
      [] d = "Float" -> T = "f32"
      [] d = "Double" -> T = "f64"

\* DataType::reads_directly_to::<T>(complex) for the target types of the model.
reads_directly_to(d, complex, T) ==
    IF complex
    THEN CASE d = "Byte" -> T = "Complex<i8>"
           [] d = "Short" -> T = "Complex<i16>"
           [] d = "Int" -> T = "Complex<i32>"
           [] d = "Float" -> T = "Complex<f32>"
           [] d = "Double" -> T = "Complex<f64>"
    ELSE CASE d = "Byte" -> T = "i8"
           [] d = "Short" -> T = "i16"
           [] d = "Int" -> T = "i32"
           [] d = "Float" -> T = "f32"
           [] d = "Double" -> T = "f64"

\* converts_to with the Short arms a copy of the Int arms.
converts_to_short_as_int(d, complex, T) ==
    IF complex
    THEN CASE d = "Byte" -> T \in {"Complex<f64>", "Complex<f32>", "Complex<i32>",
                                   "Complex<i16>", "Complex<i8>"}
           [] d \in {"Short", "Int"} -> T \in {"Complex<f64>", "Complex<f32>", "Complex<i32>"}
           [] d \in {"Float", "Double"} -> T \in {"Complex<f64>", "Complex<f32>"}
    ELSE CASE d = "Byte" -> T \in {"f64", "f32", "i32", "i16", "i8"}
           [] d \in {"Short", "Int"} -> T \in {"f64", "f32", "i32"}
           [] d \in {"Float", "Double"} -> T \in {"f64", "f32"}

\* converts_to without the narrowing of a Double to f32.
converts_to_lossless(d, complex, T) ==
    IF complex
    THEN CASE d = "Byte" -> T \in {"Complex<f64>", "Complex<f32>", "Complex<i32>",
                                   "Complex<i16>", "Complex<i8>"}
           [] d = "Short" -> T \in {"Complex<f64>", "Complex<f32>", "Complex<i32>",
                                    "Complex<i16>"}
           [] d = "Int" -> T \in {"Complex<f64>", "Complex<f32>", "Complex<i32>"}
           [] d = "Float" -> T \in {"Complex<f64>", "Complex<f32>"}
           [] d = "Double" -> T \in {"Complex<f64>"}
    ELSE CASE d = "Byte" -> T \in {"f64", "f32", "i32", "i16", "i8"}
           [] d = "Short" -> T \in {"f64", "f32", "i32", "i16"}
           [] d = "Int" -> T \in {"f64", "f32", "i32"}
           [] d = "Float" -> T \in {"f64", "f32"}
           [] d = "Double" -> T \in {"f64"}

\* DataType::converts_to::<T>(complex).
converts_to(d, complex, T) ==
    IF complex
    THEN CASE d = "Byte" -> T \in {"Complex<f64>", "Complex<f32>", "Complex<i32>",
                                   "Complex<i16>", "Complex<i8>"}
           [] d = "Short" -> T \in {"Complex<f64>", "Complex<f32>", "Complex<i32>",
                                    "Complex<i16>"}
           [] d = "Int" -> T \in {"Complex<f64>", "Complex<f32>", "Complex<i32>"}
           [] d = "Float" -> T \in {"Complex<f64>", "Complex<f32>"}
           [] d = "Double" -> T \in {"Complex<f64>", "Complex<f32>"}
    ELSE CASE d = "Byte" -> T \in {"f64", "f32", "i32", "i16", "i8"}
           [] d = "Short" -> T \in {"f64", "f32", "i32", "i16"}
           [] d = "Int" -> T \in {"f64", "f32", "i32"}
           [] d = "Float" -> T \in {"f64", "f32"}
           [] d = "Double" -> T \in {"f64", "f32"}

(* -------------------------- header storage --------------------------- *)
\* HeaderStorage::get_header_for_byte: the entry with the greatest key <= byte.
HeaderStorage_get_header_for_byte(st, byte) ==
    LET ks == {k \in DOMAIN st : k <= byte} IN
    IF ks = {} THEN None ELSE Some(st[Max(ks)])

\* HeaderStorage::add_header_for_byte: BTreeMap::insert (replaces an equal key).
add_header_for_byte(st, byte, header) ==
    [k \in (DOMAIN st) \cup {byte} |-> IF k = byte THEN header ELSE st[k]]

(* --------------------------- header reader --------------------------- *)
\* DettachedHeader::load_next_header: one header record and its extra record are
\* consumed from the header stream; start_byte is handed to from_tags.
load_next_header(hp, start_byte) ==
    IF hp >= Len(hfile) THEN [k |-> "Ok", v |-> None, hpos |-> hp]
    ELSE LET h == from_tags(start_byte, hfile[hp + 1]) IN
         IF h.k = "Err" THEN [k |-> "Err", e |-> h.e, hpos |-> hp + 1]
         ELSE [k |-> "Ok", v |-> Some(h.v), hpos |-> hp + 1]

get_first_byte_of_next_header_to_read(st) ==
    IF DOMAIN st = {} THEN 0
    ELSE LET last == st[Max(DOMAIN st)] IN last.abs_pos + last.bytes + 1

\* get_header_for_byte's loop, were a failed load indexed as well: on an error the
\* entry indexed last is entered again under the key of the failed header.
RECURSIVE get_header_for_byte_loop_indexing_failed(_, _, _, _)
get_header_for_byte_loop_indexing_failed(st, hp, ins, byte) ==
    LET first_byte == get_first_byte_of_next_header_to_read(st) IN
    IF first_byte >= byte
    THEN [k |-> "Ok", v |-> HeaderStorage_get_header_for_byte(st, byte),
          store |-> st, hpos |-> hp, ins |-> ins]
    ELSE LET l == load_next_header(hp, first_byte) IN
         IF l.k = "Err"
         THEN [k |-> "Err", e |-> l.e,
               store |-> IF DOMAIN st = {} THEN st
                         ELSE add_header_for_byte(st, first_byte, st[Max(DOMAIN st)]),
               hpos |-> l.hpos, ins |-> ins]
         ELSE IF l.v.k = "Some"
         THEN get_header_for_byte_loop_indexing_failed(
                  add_header_for_byte(st, first_byte, l.v.v),
                  l.hpos, Append(ins, first_byte), byte)
         ELSE [k |-> "Ok", v |-> None, store |-> st, hpos |-> l.hpos, ins |-> ins]

RECURSIVE get_header_for_byte_loop(_, _, _, _)
get_header_for_byte_loop(st, hp, ins, byte) ==
    LET first_byte == get_first_byte_of_next_header_to_read(st) IN
    IF first_byte >= byte
    THEN [k |-> "Ok", v |-> HeaderStorage_get_header_for_byte(st, byte),
          store |-> st, hpos |-> hp, ins |-> ins]
    ELSE LET l == load_next_header(hp, first_byte) IN
         IF l.k = "Err"
         THEN [k |-> "Err", e |-> l.e, store |-> st, hpos |-> l.hpos, ins |-> ins]
         ELSE IF l.v.k = "Some"
         THEN get_header_for_byte_loop(add_header_for_byte(st, first_byte, l.v.v),
                                       l.hpos, Append(ins, first_byte), byte)
         ELSE [k |-> "Ok", v |-> None, store |-> st, hpos |-> l.hpos, ins |-> ins]

\* HeaderReader::get_header_for_byte, once the storage has answered v.
get_header_for_byte_from(st, hp, byte, v) ==
    IF v.k = "Some"
    THEN [k |-> "Ok", v |-> v, store |-> st, hpos |-> hp, ins |-> <<>>]
    ELSE get_header_for_byte_loop(st, hp, <<>>, byte)

\* HeaderReader::get_header_for_byte.
get_header_for_byte(st, hp, byte) ==
    get_header_for_byte_from(st, hp, byte, HeaderStorage_get_header_for_byte(st, byte))

(* ------------------------- sample read engine ------------------------ *)
\* Content of the sample source: the value of the byte at each position.
Data(p) == (7 * p + 3) % 256

\* A byte of the source seen as an i8.
to_i8(b) == IF b >= 128 THEN b - 256 ELSE b

Targets == {"i8", "i16"}

size_of(T) == IF T = "i8" THEN 1 ELSE 2

\* One sample of type T copied verbatim from the source at byte p.
sample_at(T, p) == IF T = "i8" THEN to_i8(Data(p)) ELSE <<Data(p), Data(p + 1)>>

\* read_raw: fills target (count slots of T) from the cursor p; the samples and the
\* cursor after them.
read_raw(T, p, count) ==
    [n |-> count,
     samples |-> [i \in 1..count |-> sample_at(T, p + (i - 1) * size_of(T))],
     pos |-> p + count * size_of(T)]

\* SampleReadSeek::get_last_read_header.
get_last_read_header(st, hp, p) == get_header_for_byte(st, hp, p)

\* get_last_and_applicable_header, the last segment being finished: the cursor was
\* moved to cur_pos and o is the header found for it.
applicable_after(last_header, cur_pos, ins0, o) ==
    IF o.k = "Err"
    THEN [k |-> "Err", pos |-> cur_pos, store |-> o.store, hpos |-> o.hpos,
          ins |-> ins0 \o o.ins]
    ELSE IF o.v.k = "None"
    THEN [k |-> "None", pos |-> cur_pos, store |-> o.store, hpos |-> o.hpos,
          ins |-> ins0 \o o.ins]
    ELSE [k |-> "Some", last |-> last_header, appl |-> o.v.v, pos |-> o.v.v.abs_pos,
          store |-> o.store, hpos |-> o.hpos, ins |-> ins0 \o o.ins]

\* get_last_and_applicable_header, lr being the answer of get_last_read_header.
applicable_from(p, lr) ==
    IF lr.k = "Err"
    THEN [k |-> "Err", pos |-> p, store |-> lr.store, hpos |-> lr.hpos, ins |-> lr.ins]
    ELSE IF lr.v.k = "None"
    THEN [k |-> "None", pos |-> p, store |-> lr.store, hpos |-> lr.hpos, ins |-> lr.ins]
    ELSE IF lr.v.v.abs_pos + lr.v.v.bytes <= p
    THEN applicable_after(lr.v.v, p + 1, lr.ins,
                          get_header_for_byte(lr.store, lr.hpos, p + 1))
    ELSE [k |-> "Some", last |-> lr.v.v, appl |-> lr.v.v, pos |-> p,
          store |-> lr.store, hpos |-> lr.hpos, ins |-> lr.ins]

\* SampleReadSeek::get_last_and_applicable_header; pos is the cursor it leaves.
get_last_and_applicable_header(st, hp, p) ==
    applicable_from(p, get_last_read_header(st, hp, p))

\* How a read_samples call ended: s is the loop state at the head of its last
\* iteration, la what get_last_and_applicable_header left in that iteration.
read_end(s, la, kind, stop) ==
    [ret |-> [k |-> kind, n |-> s.num_read], stop |-> stop, pos |-> la.pos,
     bpos |-> s.pos, store |-> la.store, hpos |-> la.hpos, ins |-> s.ins \o la.ins,
     buf |-> s.buf, copied |-> s.copied]

\* The loop state after read_raw has copied r from the segment of la.
read_copied(s, la, r) ==
    [pos |-> r.pos, store |-> la.store, hpos |-> la.hpos, ins |-> s.ins \o la.ins,
     num_read |-> s.num_read + r.n, buf |-> s.buf \o r.samples,
     copied |-> IF r.n > 0 THEN Append(s.copied, la.appl) ELSE s.copied]

\* The while loop of read_samples over a buffer of len slots of T.  s is the loop
\* state; seen holds the loop states met since the last sample was copied, so that
\* an iteration that returns to one of them (the loop never ends) is reported.
RECURSIVE read_samples_loop(_, _, _, _)
RECURSIVE read_samples_body(_, _, _, _, _)
RECURSIVE read_samples_copy(_, _, _, _, _, _)
read_samples_loop(T, len, s, seen) ==
    IF s.num_read >= len
    THEN read_end(s, [pos |-> s.pos, store |-> s.store, hpos |-> s.hpos, ins |-> <<>>],
                  "Ok", "full")
    ELSE IF <<s.pos, s.hpos, s.store>> \in seen
    THEN read_end(s, [pos |-> s.pos, store |-> s.store, hpos |-> s.hpos, ins |-> <<>>],
                  "Hang", "hang")
    ELSE read_samples_body(T, len, s, seen,
                           get_last_and_applicable_header(s.store, s.hpos, s.pos))

\* One iteration of the loop, la being what get_last_and_applicable_header gave.
\* A cursor before the segment's abs_pos or past its last sample takes the u64
\* subtractions below zero; no stream of Init brings the cursor there.
read_samples_body(T, len, s, seen, la) ==
    IF la.k = "Err" THEN read_end(s, la, "Err", "error")
    ELSE IF la.k = "None" THEN read_end(s, la, "Ok", "eof")
    ELSE IF ~reads_directly_to(la.appl.dtype, la.appl.cplx, T)
    THEN read_end(s, la, "Ok", "type")
    ELSE IF la.appl # la.last /\ ~is_compatible_with(la.appl, la.last, "All")
    THEN read_end(s, la, "Ok", "incompatible")
    ELSE IF la.appl # la.last /\ ~is_continuation_of(la.appl, la.last)
    THEN read_end(s, la, "Ok", "discontinuity")
    ELSE IF la.pos < la.appl.abs_pos
            \/ get_sample_pos_of_byte(la.appl, la.pos) > get_num_samples(la.appl)
    THEN read_end(s, la, "Panic", "overflow")
    ELSE read_samples_copy(T, len, s, seen, la,
             Min2(len - s.num_read,
                  get_num_samples(la.appl) - get_sample_pos_of_byte(la.appl, la.pos)))

\* The copy that ends an iteration: to_read samples from the cursor.
read_samples_copy(T, len, s, seen, la, to_read) ==
    read_samples_loop(T, len, read_copied(s, la, read_raw(T, la.pos, to_read)),
                      IF to_read > 0 THEN {} ELSE seen \cup {<<s.pos, s.hpos, s.store>>})

\* SampleReadSeek::read_samples::<T> on a buffer of len slots.
read_samples(T, len, st, hp, p) ==
    read_samples_loop(T, len,
        [pos |-> p, store |-> st, hpos |-> hp, ins |-> <<>>, num_read |-> 0,
         buf |-> <<>>, copied |-> <<>>], {})

(* -------------------------------- seek ------------------------------- *)
RECURSIVE keys_in_order(_)
keys_in_order(ks) ==
    IF ks = {} THEN <<>>
    ELSE Append(keys_in_order(ks \ {Max(ks)}), Max(ks))

\* The indexed segment holding absolute sample position s, and the byte of that
\* sample; i walks the indexed segments in key order, acc counts the samples of
\* those before it.
RECURSIVE resolve_sample(_, _, _, _, _)
resolve_sample(st, order, i, acc, s) ==
    IF i > Len(order) THEN None
    ELSE IF s < acc + get_num_samples(st[order[i]])
    THEN Some([header |-> st[order[i]],
               byte |-> st[order[i]].abs_pos + (s - acc) * sample_width(st[order[i]])])
    ELSE resolve_sample(st, order, i + 1, acc + get_num_samples(st[order[i]]), s)

\* seek, cur being the header governing the cursor and dst the resolved destination.
seek_from(preserve, p, cur, dst) ==
    IF cur.k = "Err"
    THEN [ret |-> [k |-> "Err", e |-> "header"], store |-> cur.store,
          hpos |-> cur.hpos, ins |-> cur.ins, pos |-> p, cur |-> None, dst |-> None]
    ELSE IF cur.v.k = "None" \/ dst.k = "None"
    THEN [ret |-> [k |-> "Err", e |-> "unresolved"], store |-> cur.store,
          hpos |-> cur.hpos, ins |-> cur.ins, pos |-> p, cur |-> cur.v,
          dst |-> IF dst.k = "Some" THEN Some(dst.v.header) ELSE None]
    ELSE IF ~is_compatible_with(dst.v.header, cur.v.v, preserve)
            \/ (preserve = "Segment" /\ dst.v.header # cur.v.v)
    THEN [ret |-> [k |-> "Err", e |-> "unsatisfiable"], store |-> cur.store,
          hpos |-> cur.hpos, ins |-> cur.ins, pos |-> p, cur |-> cur.v,
          dst |-> Some(dst.v.header)]
    ELSE [ret |-> [k |-> "Ok"], store |-> cur.store, hpos |-> cur.hpos,
          ins |-> cur.ins, pos |-> dst.v.byte, cur |-> cur.v,
          dst |-> Some(dst.v.header)]

seek_resolve(s, preserve, p, cur) ==
    seek_from(preserve, p, cur,
              resolve_sample(cur.store, keys_in_order(DOMAIN cur.store), 1, 0, s))

\* SampleReadSeek::seek(SeekFrom::Start(s), preserve).
seek(s, preserve, st, hp, p) ==
    seek_resolve(s, preserve, p, get_header_for_byte(st, hp, p))

(* ---------------------------- state machine -------------------------- *)
Rates == {1, 2}

TypeCodes == {0, 1}

\* The header record of a first segment: a Byte segment whose data starts the
\* sample source.
RawFirst ==
    [rx_rate : Rates, rx_time : {0}, size : {1}, type : {0}, cplx : {FALSE},
     strt : {0}, bytes : 0..MaxBytes]

\* Start times of a segment after the one a describes: the time of a's last sample,
\* the two times around the end of the tolerance after it, and the time of the
\* sample that would follow a's last one.
TimesAfter(a) ==
    LET n == a.bytes \div a.size
        dur == samp_dur_of(a.rx_rate)
        t_last == a.rx_time + (IF n = 0 THEN 0 ELSE (n - 1) * dur)
    IN {t_last, t_last + dur \div 10, t_last + dur \div 10 + 1, a.rx_time + n * dur}

\* Data offsets of a segment after the one a describes: the offset repeated, the
\* byte after a's data, and one byte further.
StartsAfter(a) == {a.strt, a.strt + a.bytes, a.strt + a.bytes + 1}

RawNext(a) ==
    {r \in [rx_rate : Rates, rx_time : TimesAfter(a), size : {1}, type : TypeCodes,
            cplx : {FALSE}, strt : StartsAfter(a), bytes : 0..MaxBytes] : TRUE}

Streams ==
    {<<>>} \cup {<<a>> : a \in RawFirst}
           \cup UNION {{<<a, b>> : b \in RawNext(a)} : a \in RawFirst}

ByteArgs == 0..(2 * MaxBytes + 3)

SamplePositions == 0..(2 * MaxBytes - 1)

SeekLevels == {"None", "Format", "SampleRate", "All"}

InitRes == [op |-> "init", ret |-> [k |-> "Ok"]]

EngineIdle ==
    /\ hpos = 0
    /\ store = <<>>
    /\ pos = 0
    /\ res = InitRes
    /\ hist = <<>>

ParserIdle ==
    /\ pstream = <<>>
    /\ pres = [op |-> "init"]

Init ==
    /\ hfile \in Streams
    /\ EngineIdle
    /\ ParserIdle

\* A panic or a call that never returns ends the session.
Alive == res.ret.k \notin {"Panic", "Hang"}

GhfbStep(op, b, r) ==
    /\ store' = r.store
    /\ hpos' = r.hpos
    /\ hist' = hist \o r.ins
    /\ res' = [op |-> op, byte |-> b,
               ret |-> IF r.k = "Ok" THEN [k |-> "Ok", v |-> r.v]
                       ELSE [k |-> "Err", e |-> r.e]]
    /\ UNCHANGED <<hfile, pos, pstream, pres>>

GetHeaderForByte(b) ==
    /\ Alive
    /\ GhfbStep("get_header_for_byte", b, get_header_for_byte(store, hpos, b))

GetLastReadHeader ==
    /\ Alive
    /\ GhfbStep("get_last_read_header", pos, get_last_read_header(store, hpos, pos))

ReadStep(T, len, r) ==
    /\ store' = r.store
    /\ hpos' = r.hpos
    /\ hist' = hist \o r.ins
    /\ pos' = r.pos
    /\ res' = [op |-> "read_samples", T |-> T, len |-> len, pos0 |-> pos,
               fresh |-> (store = <<>> /\ hpos = 0 /\ pos = 0),
               loaded0 |-> DOMAIN store,
               ret |-> r.ret, stop |-> r.stop,
               bpos |-> r.bpos, buf |-> r.buf, copied |-> r.copied]
    /\ UNCHANGED <<hfile, pstream, pres>>

ReadSamples(T, len) ==
    /\ Alive
    /\ ReadStep(T, len, read_samples(T, len, store, hpos, pos))

SeekStep(preserve, r) ==
    /\ store' = r.store
    /\ hpos' = r.hpos
    /\ hist' = hist \o r.ins
    /\ pos' = r.pos
    /\ res' = [op |-> "seek", preserve |-> preserve, pos0 |-> pos,
               ret |-> r.ret, cur |-> r.cur, dst |-> r.dst]
    /\ UNCHANGED <<hfile, pstream, pres>>

Seek(s, preserve) ==
    /\ Alive
    /\ SeekStep(preserve, seek(s, preserve, store, hpos, pos))

Next ==
    \/ \E b \in ByteArgs : GetHeaderForByte(b)
    \/ GetLastReadHeader
    \/ \E T \in Targets, len \in 1..MaxBuf : ReadSamples(T, len)
    \/ \E s \in SamplePositions, p \in SeekLevels : Seek(s, p)

Spec == Init /\ [][Next]_vars

(* ------------------- the header index on its own --------------------- *)
MaxStart == 2

\* Header streams of three Byte segments whose strt fields are unconstrained.
IdxStreams ==
    [1..3 -> [rx_rate : {1}, rx_time : {0}, size : {1}, type : {0}, cplx : {FALSE},
              strt : 0..MaxStart, bytes : 0..MaxBytes]]

IdxByteArgs == 0..(3 * (MaxStart + MaxBytes + 1))

InitIdx ==
    /\ hfile \in IdxStreams
    /\ EngineIdle
    /\ ParserIdle

\* get_header_for_byte called with a byte argument above the one of the call
\* before it.
GetHeaderForByteInc(b) ==
    /\ IF res.op = "init" THEN TRUE ELSE b > res.byte
    /\ GhfbStep("get_header_for_byte", b, get_header_for_byte(store, hpos, b))

NextIdx == \E b \in IdxByteArgs : GetHeaderForByteInc(b)

SpecIdx == InitIdx /\ [][NextIdx]_vars

(* ------------------------ the parser on its own ---------------------- *)
MaxTuple == 2

\* Big-endian bytes of n in w bytes (two's complement for a negative n).
RECURSIVE to_be(_, _)
to_be(n, w) == IF w = 0 THEN <<>> ELSE Append(to_be(n \div 256, w - 1), n % 256)

RECURSIVE Concat(_)
Concat(ss) == IF ss = <<>> THEN <<>> ELSE Head(ss) \o Concat(Tail(ss))

\* The wire encoding of a Tag.
RECURSIVE Encode(_)
RECURSIVE EncodeDict(_)
EncodeEntry(m, name) ==
    <<9, 7, 2>> \o to_be(Len(name), 2) \o name \o Encode(m[name])
        \o (IF DOMAIN m = {name} THEN <<6>>
            ELSE EncodeDict([x \in (DOMAIN m) \ {name} |-> m[x]]))

EncodeDict(m) == EncodeEntry(m, CHOOSE name \in DOMAIN m : TRUE)

Encode(tag) ==
    CASE tag.t = "Bool" -> IF tag.b THEN <<0>> ELSE <<1>>
      [] tag.t = "Symbol" -> <<2>> \o to_be(Len(tag.s), 2) \o tag.s
      [] tag.t = "Int32" -> <<3>> \o to_be(tag.i, 4)
      [] tag.t = "Double" -> <<4>> \o tag.bits
      [] tag.t = "Null" -> <<6>>
      [] tag.t = "Pair" -> <<7>> \o Encode(tag.a) \o Encode(tag.b)
      [] tag.t = "Dict" -> EncodeDict(tag.m)
      [] tag.t = "UInt64" -> <<11>> \o to_be(tag.u, 8)
      [] tag.t = "Tuple" -> <<12>> \o to_be(Len(tag.items), 4)
                               \o Concat([i \in 1..Len(tag.items) |-> Encode(tag.items[i])])

\* Symbol texts: the empty string, "a" and "ab".
Texts == {<<>>, <<97>>, <<97, 98>>}

\* Tags without nested records; the Double is 1.0.
LeafTags ==
    {[t |-> "Bool", b |-> TRUE], [t |-> "Bool", b |-> FALSE], [t |-> "Null"],
     [t |-> "Int32", i |-> -2], [t |-> "Int32", i |-> 258],
     [t |-> "Double", bits |-> <<63, 240, 0, 0, 0, 0, 0, 0>>],
     [t |-> "UInt64", u |-> 259]}
        \cup {[t |-> "Symbol", s |-> x] : x \in Texts}

TuplesOver(S) ==
    UNION {{[t |-> "Tuple", items |-> v] : v \in [1..n -> S]} : n \in 0..MaxTuple}

\* Non-empty dicts of one or two distinct keys.
DictsOver(S) ==
    UNION {{[t |-> "Dict", m |-> m] : m \in [K -> S]} :
           K \in {K \in SUBSET Texts : K # {} /\ Cardinality(K) <= 2}}

PairsOver(S) == {[t |-> "Pair", a |-> a, b |-> b] : a, b \in S}

\* A few records of each kind, to nest one level further.
Inner ==
    {[t |-> "Null"], [t |-> "Int32", i |-> 258], [t |-> "Symbol", s |-> <<>>],
     [t |-> "Pair", a |-> [t |-> "Null"], b |-> [t |-> "Bool", b |-> TRUE]],
     [t |-> "Tuple", items |-> <<[t |-> "UInt64", u |-> 259]>>],
     [t |-> "Dict", m |-> [x \in {<<>>} |-> [t |-> "Null"]]]}

PmtTags ==
    LeafTags \cup PairsOver(LeafTags)
             \cup DictsOver({[t |-> "Null"], [t |-> "Int32", i |-> 258]})
             \cup PairsOver(Inner) \cup TuplesOver(Inner) \cup DictsOver(Inner)

Prefixes(s) == {SubSeq(s, 1, n) : n \in 0..Len(s)}

\* Type bytes parse_tag has an arm for.
KnownKinds == {0, 1, 2, 3, 4, 6, 7, 9, 11, 12}

\* Some bytes it has none for.
UnknownKinds == {5, 8, 10, 13, 255}

\* Streams: an encoded Tag cut anywhere, or whole and followed by a Null record;
\* and records led by an unknown type byte, at the top level or nested in a Pair.
PmtStreams ==
    UNION {Prefixes(Encode(tag)) \cup {Encode(tag) \o <<6>>} : tag \in PmtTags}
        \cup {<<b>> : b \in UnknownKinds}
        \cup {<<b, 0, 0>> : b \in UnknownKinds}
        \cup {<<7, 6, b>> : b \in UnknownKinds}

InitPmt ==
    /\ hfile = <<>>
    /\ EngineIdle
    /\ pstream \in PmtStreams
    /\ pres = [op |-> "init"]

\* A call on the reader: pstream is what the reader has left.
PmtStep(op, r) ==
    /\ pres' = [op |-> op, input |-> pstream, used |-> r.pos,
                ret |-> IF r.k = "Ok" THEN [k |-> "Ok", v |-> r.v]
                        ELSE IF r.k = "Err" THEN [k |-> "Err", e |-> r.e]
                        ELSE [k |-> "Panic"]]
    /\ pstream' = SubSeq(pstream, r.pos + 1, Len(pstream))
    /\ UNCHANGED <<hfile, hpos, store, pos, res, hist>>

PmtAlive == IF pres.op = "init" THEN TRUE ELSE pres.ret.k # "Panic"

Parse ==
    /\ PmtAlive
    /\ PmtStep("parse", parse(pstream, 0))

ParseMaybeEof ==
    /\ PmtAlive
    /\ PmtStep("parse_maybe_eof", parse_maybe_eof(pstream, 0))

NextPmt == Parse \/ ParseMaybeEof

SpecPmt == InitPmt /\ [][NextPmt]_vars

(* --------------------- the data type lattice on its own -------------- *)
\* Target types T: the primitive numeric types and the Complex of each.
ScalarTypes == {"i8", "i16", "i32", "i64", "u8", "u16", "u32", "u64", "f32", "f64"}

ComplexTypes == {"Complex<i8>", "Complex<i16>", "Complex<i32>", "Complex<i64>",
                 "Complex<u8>", "Complex<u16>", "Complex<u32>", "Complex<u64>",
                 "Complex<f32>", "Complex<f64>"}

TargetTypes == ScalarTypes \cup ComplexTypes

\* A dtype, a complex flag and a target type are chosen; the calls are made on them.
InitTypes ==
    /\ hfile = <<>>
    /\ hpos = 0
    /\ store = <<>>
    /\ pos = 0
    /\ hist = <<>>
    /\ ParserIdle
    /\ res \in [op : {"init"}, dtype : DataTypes, complex : BOOLEAN, T : TargetTypes]

TypeStep(op, ret) ==
    /\ res' = [op |-> op, dtype |-> res.dtype, complex |-> res.complex, T |-> res.T,
               ret |-> ret]
    /\ UNCHANGED <<hfile, hpos, store, pos, hist, pstream, pres>>

ReadsDirectlyTo ==
    /\ res.dtype \in DataTypes
    /\ TypeStep("reads_directly_to", reads_directly_to(res.dtype, res.complex, res.T))

ConvertsTo ==
    /\ res.dtype \in DataTypes
    /\ TypeStep("converts_to", converts_to(res.dtype, res.complex, res.T))

NextTypes == ReadsDirectlyTo \/ ConvertsTo

SpecTypes == InitTypes /\ [][NextTypes]_vars

(* ------------------ the detached loader on its own ------------------- *)
\* The names of the header fields, as the bytes of a Symbol.
KeyRxRate == <<114, 120, 95, 114, 97, 116, 101>>

KeyRxTime == <<114, 120, 95, 116, 105, 109, 101>>

KeySize == <<115, 105, 122, 101>>

KeyType == <<116, 121, 112, 101>>

KeyCplx == <<99, 112, 108, 120>>

KeyStrt == <<115, 116, 114, 116>>

KeyBytes == <<98, 121, 116, 101, 115>>

HErr(e) == [k |-> "Err", e |-> e]

\* Tag::get_f64 / get_u64 / get_i32 / get_bool answer Some exactly on a Tag of
\* their kind; has_kind(tag, t) is that test.
has_kind(tag, t) == tag.t = t

\* Header::from_tags on the two parsed records: the header record must be a
\* Dict, and each field is looked up and type-checked in the order of the code.
\* samp_rate and the fraction of rx_time stay the bytes of their f64; samp_dur
\* (1.0 / samp_rate) is not carried.
header_of_dict(byte_in_file, m, dt) ==
    IF dt.k = "Err" THEN HErr(dt.e)
    ELSE IF KeyCplx \notin DOMAIN m THEN HErr("MissingField cplx")
    ELSE IF ~has_kind(m[KeyCplx], "Bool") THEN HErr("WrongTypeField cplx")
    ELSE IF KeyStrt \notin DOMAIN m THEN HErr("MissingField strt")
    ELSE IF ~has_kind(m[KeyStrt], "UInt64") THEN HErr("WrongTypeField strt")
    ELSE IF KeyBytes \notin DOMAIN m THEN HErr("MissingField bytes")
    ELSE IF ~has_kind(m[KeyBytes], "UInt64") THEN HErr("WrongTypeField bytes")
    ELSE [k |-> "Ok",
          v |-> [samp_rate |-> m[KeyRxRate].bits,
                 rx_time |-> <<m[KeyRxTime].items[1].u, m[KeyRxTime].items[2].bits>>,
                 size |-> m[KeySize].i, dtype |-> dt.v, cplx |-> m[KeyCplx].b,
                 strt |-> m[KeyStrt].u, bytes |-> m[KeyBytes].u,
                 abs_pos |-> m[KeyStrt].u, pos_in_file |-> byte_in_file]]

from_tags_dict(byte_in_file, m) ==
    IF KeyRxRate \notin DOMAIN m THEN HErr("MissingField rx_rate")
    ELSE IF ~has_kind(m[KeyRxRate], "Double") THEN HErr("WrongTypeField rx_rate")
    ELSE IF KeyRxTime \notin DOMAIN m THEN HErr("MissingField rx_time")
    ELSE IF ~has_kind(m[KeyRxTime], "Tuple") THEN HErr("WrongTypeField rx_time")
    ELSE IF Len(m[KeyRxTime].items) < 1 THEN HErr("MissingField rx_time seconds")
    ELSE IF Len(m[KeyRxTime].items) < 2 THEN HErr("MissingField rx_time fractional")
    ELSE IF ~has_kind(m[KeyRxTime].items[1], "UInt64")
    THEN HErr("WrongTypeField rx_time seconds")
    ELSE IF ~has_kind(m[KeyRxTime].items[2], "Double")
    THEN HErr("WrongTypeField rx_time fraction")
    ELSE IF KeySize \notin DOMAIN m THEN HErr("MissingField size")
    ELSE IF ~has_kind(m[KeySize], "Int32") THEN HErr("WrongTypeField size")
    ELSE IF KeyType \notin DOMAIN m THEN HErr("MissingField type")
    ELSE IF ~has_kind(m[KeyType], "Int32") THEN HErr("WrongTypeField type")
    ELSE header_of_dict(byte_in_file, m, from_int(m[KeyType].i))

from_tags_records(byte_in_file, tag, extra) ==
    IF tag.t # "Dict" THEN HErr("HeaderNotDictionary")
    ELSE from_tags_dict(byte_in_file, tag.m)

\* The result of load_next_header once from_tags has answered h.
load_next_header_built(h, p) ==
    IF h.k = "Err" THEN PErr(h.e, p) ELSE POk(Some(h.v), p)

\* load_next_header, were an extra record cut off by the end of the stream taken
\* for a clean end of the stream.
load_next_header_extra_lenient(start_byte, tag, extra) ==
    IF extra.k = "Err" THEN POk(None, extra.pos)
    ELSE IF extra.k # "Ok" THEN extra
    ELSE load_next_header_built(from_tags_records(start_byte, tag, extra.v), extra.pos)

\* load_next_header once the extra record has been parsed: `parse(..)?`.
load_next_header_extra(start_byte, tag, extra) ==
    IF extra.k # "Ok" THEN extra
    ELSE load_next_header_built(from_tags_records(start_byte, tag, extra.v), extra.pos)

\* load_next_header once parse_maybe_eof has answered header_tag.
load_next_header_from(s, start_byte, header_tag) ==
    IF header_tag.k # "Ok" THEN header_tag
    ELSE IF header_tag.v = None THEN POk(None, header_tag.pos)
    ELSE load_next_header_extra(start_byte, header_tag.v.v, parse(s, header_tag.pos))

\* DettachedHeader::load_next_header on the bytes the header file has left.
load_next_header_bytes(s, start_byte) ==
    load_next_header_from(s, start_byte, parse_maybe_eof(s, 0))

\* A Dict holding every field of a header, well typed.
FullHeaderDict ==
    [t |-> "Dict",
     m |-> (KeyRxRate :> [t |-> "Double", bits |-> <<63, 240, 0, 0, 0, 0, 0, 0>>]
            @@ KeyRxTime :> [t |-> "Tuple",
                             items |-> <<[t |-> "UInt64", u |-> 259],
                                         [t |-> "Double",
                                          bits |-> <<63, 240, 0, 0, 0, 0, 0, 0>>]>>]
            @@ KeySize :> [t |-> "Int32", i |-> 1]
            @@ KeyType :> [t |-> "Int32", i |-> 0]
            @@ KeyCplx :> [t |-> "Bool", b |-> FALSE]
            @@ KeyStrt :> [t |-> "UInt64", u |-> 0]
            @@ KeyBytes :> [t |-> "UInt64", u |-> 2])]

\* A Dict whose only key is the empty Symbol.
EmptyKeyDict == [t |-> "Dict", m |-> (<<>> :> [t |-> "Null"])]

\* Records written where a header record is expected.
LoadHeaderTags ==
    {FullHeaderDict, EmptyKeyDict, [t |-> "Null"], [t |-> "Bool", b |-> TRUE],
     [t |-> "UInt64", u |-> 259], [t |-> "Symbol", s |-> <<>>],
     [t |-> "Dict", m |-> (KeyRxRate :> [t |-> "Int32", i |-> 1])],
     [t |-> "Pair", a |-> [t |-> "Null"], b |-> [t |-> "Int32", i |-> 258]],
     [t |-> "Tuple", items |-> <<[t |-> "Null"]>>]}

\* Records written where an extra record is expected.
LoadExtraTags ==
    {[t |-> "Null"], EmptyKeyDict, [t |-> "Int32", i |-> 258],
     [t |-> "Symbol", s |-> <<97>>],
     [t |-> "Pair", a |-> [t |-> "Null"], b |-> [t |-> "UInt64", u |-> 259]],
     [t |-> "Tuple", items |-> <<[t |-> "Null"], [t |-> "Bool", b |-> FALSE]>>],
     [t |-> "Dict", m |-> (<<>> :> [t |-> "Double",
                                    bits |-> <<63, 240, 0, 0, 0, 0, 0, 0>>])]}

\* Header files: a header record cut anywhere; a header record followed by an
\* extra record cut anywhere; two whole pairs of records.
LoadStreams ==
    UNION {Prefixes(Encode(h)) : h \in LoadHeaderTags}
        \cup UNION {{Encode(h) \o x : x \in Prefixes(Encode(e))} :
                    h \in LoadHeaderTags, e \in LoadExtraTags}
        \cup {Encode(h) \o Encode(e) \o Encode(h) \o Encode(e) :
              h \in {EmptyKeyDict, [t |-> "Null"]}, e \in {[t |-> "Null"], EmptyKeyDict}}

InitLoad ==
    /\ hfile = <<>>
    /\ EngineIdle
    /\ pstream \in LoadStreams
    /\ pres = [op |-> "init"]

\* load_next_header is called on what the header file has left.
LoadNextHeader ==
    /\ PmtAlive
    /\ PmtStep("load_next_header", load_next_header_bytes(pstream, 0))

NextLoad == LoadNextHeader

SpecLoad == InitLoad /\ [][NextLoad]_vars

(* ------------------ header compatibility on its own ------------------ *)
\* Headers of every sample rate, dtype and complex flag; v picks one of two
\* settings of the fields is_compatible_with does not read.
PairHeader(r, d, c, v) ==
    [samp_rate |-> r, samp_dur |-> samp_dur_of(r), rx_time |-> 3 * v, size |-> 1 + v,
     dtype |-> d, cplx |-> c, strt |-> v, bytes |-> 2 + 2 * v, abs_pos |-> v,
     pos_in_file |-> v,
     extra_dict |-> IF v = 0 THEN [t |-> "Null"] ELSE [t |-> "Bool", b |-> TRUE]]

PairHeaders ==
    {PairHeader(r, d, c, v) : r \in Rates, d \in DataTypes, c \in BOOLEAN, v \in {0, 1}}

\* Two headers and a preserve level are chosen; the call is made on them.
InitCompat ==
    /\ hfile = <<>>
    /\ hpos = 0
    /\ store = <<>>
    /\ pos = 0
    /\ hist = <<>>
    /\ ParserIdle
    /\ res \in [op : {"init"}, self : PairHeaders, other : PairHeaders,
                preserve : Preserves]

IsCompatibleWith ==
    /\ res.preserve \in Preserves
    /\ res' = [op |-> "is_compatible_with", self |-> res.self, other |-> res.other,
               preserve |-> res.preserve,
               ret |-> is_compatible_with(res.self, res.other, res.preserve)]
    /\ UNCHANGED <<hfile, hpos, store, pos, hist, pstream, pres>>

NextCompat == IsCompatibleWith

SpecCompat == InitCompat /\ [][NextCompat]_vars

(* ------------------- header continuation on its own ----------------- *)
\* A Byte header of rate r, element size z, complex flag c, b bytes of data and
\* reception time t.
TimedHeader(r, z, c, b, t) ==
    [samp_rate |-> r, samp_dur |-> samp_dur_of(r), rx_time |-> t, size |-> z,
     dtype |-> "Byte", cplx |-> c, strt |-> 0, bytes |-> b, abs_pos |-> 0,
     pos_in_file |-> 0]

\* Prior segments: none to four bytes of data, received at tick 0 or 30.
PriorHeaders ==
    {TimedHeader(r, z, c, b, t) :
        r \in Rates, z \in {1, 2}, c \in BOOLEAN, b \in 0..4, t \in {0, 30}}

\* Following segments: received at any tick up to past the end of a prior segment.
FollowingHeaders == {TimedHeader(r, 1, FALSE, 1, t) : r \in Rates, t \in 0..115}

InitCont ==
    /\ hfile = <<>>
    /\ hpos = 0
    /\ store = <<>>
    /\ pos = 0
    /\ hist = <<>>
    /\ ParserIdle
    /\ res \in [op : {"init"}, self : FollowingHeaders, other : PriorHeaders]

IsContinuationOf ==
    /\ res.self \in FollowingHeaders
    /\ res' = [op |-> "is_continuation_of", self |-> res.self, other |-> res.other,
               ret |-> is_continuation_of(res.self, res.other)]
    /\ UNCHANGED <<hfile, hpos, store, pos, hist, pstream, pres>>

NextCont == IsContinuationOf

SpecCont == InitCont /\ [][NextCont]_vars

(* ------------------- header construction on its own ------------------ *)
\* Header records of every type code from -1 to 5, element size 1 or 2, real or
\* complex, with a data length that the sample width divides or not.
CtorStreams ==
    {<<r>> : r \in [rx_rate : {1}, rx_time : {0}, size : {1, 2}, type : -1..5,
                    cplx : BOOLEAN, strt : {0}, bytes : 0..(MaxBytes + 2)]}

InitCtor ==
    /\ hfile \in CtorStreams
    /\ EngineIdle
    /\ ParserIdle

\* The byte arguments that make a fresh reader load its first header.
NextCtor == \E b \in 1..2 : GetHeaderForByte(b)

SpecCtor == InitCtor /\ [][NextCtor]_vars

(* ------------------------------- claims ------------------------------ *)
\* Every header record of the stream carries a type code that from_tags accepts
\* in the intended design (code 0, Byte).
AllByte == \A i \in 1..Len(hfile) : hfile[i].type = 0

\* Two records describe adjacent segments: the second's data starts where the
\* first's ends.
Adjacent == Len(hfile) = 2 /\ hfile[2].strt = hfile[1].strt + hfile[1].bytes

\* Samples of the segment a header record describes.
RawSamples(r) == r.bytes \div (r.size * (IF r.cplx THEN 2 ELSE 1))

\* The continuation relation as the design states it, on header records: b starts
\* within 0.1 x a's sample duration of the time extrapolated to a's last sample.
RawContinuation(b, a) ==
    10 * AbsDiff(b.rx_time,
                 a.rx_time + (IF RawSamples(a) = 0 THEN 0
                              ELSE (RawSamples(a) - 1) * samp_dur_of(a.rx_rate)))
        <= samp_dur_of(a.rx_rate)

\* A first read_samples call on a freshly constructed engine over a stream of one
\* Byte segment of N >= 1 samples, into an N-slot i8 buffer.
C1_Case ==
    /\ res.op = "read_samples"
    /\ res.fresh
    /\ Len(hfile) = 1
    /\ AllByte
    /\ res.T = "i8"
    /\ RawSamples(hfile[1]) >= 1
    /\ res.len = RawSamples(hfile[1])

\* C1: on a fresh engine over one segment of N Byte samples, the first read_samples
\* into an N-slot i8 buffer returns N with buf[i] the i-th sample of the segment,
\* and the read_samples call that follows it returns 0.
C1_FirstReadFillsBuffer ==
    /\ [](C1_Case =>
            /\ res.ret = [k |-> "Ok", n |-> res.len]
            /\ Len(res.buf) = res.len
            /\ \A i \in 1..res.len : res.buf[i] = to_i8(Data(hfile[1].strt + i - 1)))
    /\ [][(C1_Case /\ res'.op = "read_samples") => res'.ret = [k |-> "Ok", n |-> 0]]_vars

\* A read_samples call that starts inside the first of two adjacent Byte segments
\* of different sample rates, with more buffer than samples left in that segment.
C2_Case ==
    /\ res.op = "read_samples"
    /\ Adjacent
    /\ AllByte
    /\ hfile[1].rx_rate # hfile[2].rx_rate
    /\ res.T = "i8"
    /\ res.pos0 >= hfile[1].strt
    /\ res.pos0 < hfile[1].strt + hfile[1].bytes
    /\ res.len > RawSamples(hfile[1]) - (res.pos0 - hfile[1].strt)

\* C2: across two adjacent segments that differ in sample_rate, a read_samples
\* call started inside the first one with more buffer than samples left returns
\* exactly the samples left in the first segment.
C2_StopsAtRateChange ==
    C2_Case => res.ret = [k |-> "Ok",
                          n |-> RawSamples(hfile[1]) - (res.pos0 - hfile[1].strt)]

\* A read_samples call started at the first sample of two adjacent Byte segments
\* of equal rate, the second continuing the first in time, with room for both.
C3_Case ==
    /\ res.op = "read_samples"
    /\ Adjacent
    /\ AllByte
    /\ hfile[1].rx_rate = hfile[2].rx_rate
    /\ RawContinuation(hfile[2], hfile[1])
    /\ res.T = "i8"
    /\ res.pos0 = hfile[1].strt
    /\ res.len >= RawSamples(hfile[1]) + RawSamples(hfile[2])

\* C3: across two adjacent segments of equal sample_rate and dtype, the second
\* within tolerance of the time extrapolated from the first, one read_samples call
\* started at the first sample with room for both returns n1 + n2.
C3_SpansContinuation ==
    C3_Case => res.ret = [k |-> "Ok",
                          n |-> RawSamples(hfile[1]) + RawSamples(hfile[2])]

\* Headers g and h may follow each other in one run of samples: equal sample rate
\* and g continues h in time.
SameRun(g, h) ==
    /\ g.samp_rate = h.samp_rate
    /\ 10 * AbsDiff(g.rx_time,
                    h.rx_time + (IF h.bytes \div (h.size * (IF h.cplx THEN 2 ELSE 1)) = 0
                                 THEN 0
                                 ELSE (h.bytes \div (h.size * (IF h.cplx THEN 2 ELSE 1)) - 1)
                                      * h.samp_dur))
          <= h.samp_dur

\* The segments a read_samples call copied from, after the one the call before it
\* last read from.
Chain(before, copied) == IF before = <<>> THEN copied
                         ELSE <<before[Len(before)]>> \o copied

\* C4: over consecutive read_samples calls, a call never copies from a segment
\* whose rate differs from, or whose start is discontinuous with, the segment
\* read just before it, and the call after one that stopped at such a boundary
\* returns 0.
C4_ReadsStayInOneRun ==
    [][(res.op = "read_samples" /\ res'.op = "read_samples") =>
          /\ \A i \in 2..Len(Chain(res.copied, res'.copied)) :
                \/ Chain(res.copied, res'.copied)[i] = Chain(res.copied, res'.copied)[i - 1]
                \/ SameRun(Chain(res.copied, res'.copied)[i],
                           Chain(res.copied, res'.copied)[i - 1])
          /\ (res.stop \in {"incompatible", "discontinuity"} => res'.ret.n = 0)]_vars

\* C5: when read_samples stops at a segment that fails the compatibility or the
\* continuation check, the cursor after the call is where it was when the boundary
\* was reached.
C5_CursorStaysAtBoundary ==
    (res.op = "read_samples" /\ res.stop \in {"incompatible", "discontinuity"})
        => pos = res.bpos

\* C7: with every header parsing, read_samples returns Ok(n) with 0 <= n <= buf.len(),
\* never an error, a panic or no answer at all.
C7_ReadAlwaysReturnsCount ==
    (res.op = "read_samples" /\ AllByte)
        => (res.ret.k = "Ok" /\ res.ret.n >= 0 /\ res.ret.n <= res.len)

\* A seek whose destination segment fails the compatibility predicate against the
\* segment under the cursor, on the fields of the two headers.
C6_Case ==
    /\ res.op = "seek"
    /\ res.cur.k = "Some"
    /\ res.dst.k = "Some"
    /\ \/ /\ res.preserve \in {"SampleRate", "SampleRateAndConvertability", "All",
                               "Segment"}
          /\ res.dst.v.samp_rate # res.cur.v.samp_rate
       \/ /\ res.preserve \in {"Format", "All", "Segment"}
          /\ res.dst.v.dtype # res.cur.v.dtype

C8_KeysStrictlyIncrease ==
    \A i, j \in 1..Len(hist) : i < j => hist[i] < hist[j]

\* The stream a parser call was made on is an encoded Tag cut after its first byte
\* and before its last.
Truncated(input) ==
    /\ input # <<>>
    /\ \E tag \in PmtTags : input \in Prefixes(Encode(tag)) /\ input # Encode(tag)

\* C9: parse_maybe_eof returns Ok(None) exactly on a stream at its clean end; a
\* stream that ends after the first byte of the record, inside a nested record
\* included, makes it and parse return an error; parse on an empty stream returns
\* an error.
C9_OnlyCleanEndIsNone ==
    /\ pres.op = "parse_maybe_eof"
         => (pres.ret = [k |-> "Ok", v |-> None] <=> pres.input = <<>>)
    /\ (pres.op \in {"parse", "parse_maybe_eof"} /\ Truncated(pres.input))
         => pres.ret.k = "Err"
    /\ (pres.op = "parse" /\ pres.input = <<>>) => pres.ret.k = "Err"

\* parse_maybe_eof has refused a Pair whose second record is cut short.
C9_Witness ==
    /\ pres.op = "parse_maybe_eof"
    /\ Len(pres.input) >= 3
    /\ pres.input[1] = 7
    /\ Truncated(pres.input)
    /\ pres.ret.k = "Err"

\* C10: parsing the wire encoding of a supported Tag yields a Tag equal to the
\* original and consumes exactly the bytes of the encoding.
C10_RoundTrip ==
    pres.op = "parse" =>
        \A tag \in PmtTags :
            (Len(pres.input) >= Len(Encode(tag))
             /\ SubSeq(pres.input, 1, Len(Encode(tag))) = Encode(tag))
                => (pres.ret = [k |-> "Ok", v |-> tag] /\ pres.used = Len(Encode(tag)))

\* C11: a record led by a type byte parse_tag has no arm for makes parse and
\* parse_maybe_eof return a parse error; the parser does not panic on it.
C11_UnknownKindIsError ==
    (pres.op \in {"parse", "parse_maybe_eof"}
     /\ pres.input # <<>>
     /\ pres.input[1] \notin KnownKinds)
        => pres.ret.k = "Err"

\* C12: a Symbol record of n bytes of text parses to Symbol(text) holding those
\* n bytes and leaves the reader just after them, for every n >= 0.
C12_SymbolHoldsItsText ==
    pres.op = "parse" =>
        \A text \in Texts :
            (Len(pres.input) >= 3 + Len(text)
             /\ SubSeq(pres.input, 1, 3 + Len(text)) = <<2>> \o to_be(Len(text), 2) \o text)
                => (pres.ret = [k |-> "Ok", v |-> [t |-> "Symbol", s |-> text]]
                    /\ pres.used = 3 + Len(text))

\* The native representation of a dtype: the signed or floating type of its width.
NativeScalar(d) ==
    CASE d = "Byte" -> "i8" [] d = "Short" -> "i16" [] d = "Int" -> "i32"
      [] d = "Float" -> "f32" [] d = "Double" -> "f64"

ComplexOf(x) ==
    CASE x = "i8" -> "Complex<i8>" [] x = "i16" -> "Complex<i16>"
      [] x = "i32" -> "Complex<i32>" [] x = "f32" -> "Complex<f32>"
      [] x = "f64" -> "Complex<f64>"

NativeOf(d, complex) == IF complex THEN ComplexOf(NativeScalar(d)) ELSE NativeScalar(d)

\* C13: for every dtype, complex flag and target type, reads_directly_to implies
\* converts_to, and every dtype converts to its own native representation.
C13_ReadsImpliesConverts ==
    res.op = "converts_to" =>
        /\ reads_directly_to(res.dtype, res.complex, res.T) => res.ret
        /\ res.T = NativeOf(res.dtype, res.complex) => res.ret

\* converts_to has answered true for a complex Short asked for as Complex<i16>.
C13_Witness ==
    /\ res.op = "converts_to"
    /\ res.dtype = "Short"
    /\ res.complex
    /\ res.T = "Complex<i16>"
    /\ reads_directly_to(res.dtype, res.complex, res.T)
    /\ res.ret

\* The scalar targets the lattice allows for a dtype: its own representation, the
\* wider ones, and f32 for a Double.
AllowedScalars(d) ==
    CASE d = "Byte" -> {"i8", "i16", "i32", "f32", "f64"}
      [] d = "Short" -> {"i16", "i32", "f32", "f64"}
      [] d = "Int" -> {"i32", "f32", "f64"}
      [] d = "Float" -> {"f32", "f64"}
      [] d = "Double" -> {"f32", "f64"}

AllowedTargets(d, complex) ==
    IF complex THEN {ComplexOf(x) : x \in AllowedScalars(d)} ELSE AllowedScalars(d)

\* C14: converts_to is true exactly for the targets of the lattice with the
\* complex-ness of the flag, and false for every other target.
C14_ConvertsExactlyLattice ==
    res.op = "converts_to" =>
        (res.ret <=> res.T \in AllowedTargets(res.dtype, res.complex))

\* converts_to has answered true for the narrowing of a Double to f32, and false
\* for a Complex target asked of a scalar segment.
C14_Witness ==
    /\ res.op = "converts_to"
    /\ \/ res.dtype = "Double" /\ ~res.complex /\ res.T = "f32" /\ res.ret
       \/ res.dtype = "Int" /\ ~res.complex /\ res.T = "Complex<i32>" /\ ~res.ret

C16_LastReadHeaderFollowsReads ==
    [][res'.op = "get_last_read_header" =>
          /\ (res.op = "read_samples" /\ res.copied # <<>>)
                => res'.ret = [k |-> "Ok", v |-> Some(res.copied[Len(res.copied)])]
          /\ (res.op = "init" \/ (res.op = "seek" /\ res.ret.k = "Ok"))
                => res'.ret = [k |-> "Ok", v |-> None]]_vars

\* The segments of the header stream cover the bytes [0, L): every header parses,
\* no segment is empty, the first one starts at byte 0 and each next one where
\* the one before ends.
CoversFromZero ==
    /\ Len(hfile) >= 1
    /\ AllByte
    /\ \A i \in 1..Len(hfile) : hfile[i].bytes >= 1
    /\ hfile[1].strt = 0
    /\ Len(hfile) = 2 => Adjacent

\* L: the byte after the last segment.
StreamEnd == hfile[Len(hfile)].strt + hfile[Len(hfile)].bytes

\* C17: over segments covering [0, L), get_header_for_byte(b) returns the header
\* of the segment whose byte range holds b for every b < L, from any state of the
\* index, and none only for b >= L once the header stream is at its end.
C17_HeaderOfEveryCoveredByte ==
    (res.op = "get_header_for_byte" /\ CoversFromZero) =>
        /\ res.byte < StreamEnd =>
              /\ res.ret.k = "Ok"
              /\ res.ret.v.k = "Some"
              /\ res.ret.v.v.strt <= res.byte
              /\ res.byte < res.ret.v.v.strt + res.ret.v.v.bytes
        /\ res.ret = [k |-> "Ok", v |-> None] =>
              (res.byte >= StreamEnd /\ hpos = Len(hfile))

\* C18: the first header is loaded and indexed at byte 0, the next one at the data
\* start plus the byte length of the segment indexed before it.
C18_NextStartIsEndOfLast ==
    /\ Len(hist) >= 1 => hist[1] = 0
    /\ Len(hist) >= 2 =>
          hist[2] = store[hist[1]].abs_pos + store[hist[1]].bytes

\* C19: every (key, header) entry put into the header storage stays there with
\* the header it was inserted with, and no insertion lands on a key already there.
C19_StorageOnlyGrows ==
    /\ \A i \in 1..Len(hist) :
          /\ hist[i] \in DOMAIN store
          /\ store[hist[i]].strt = hfile[i].strt
          /\ store[hist[i]].bytes = hfile[i].bytes
    /\ \A i, j \in 1..Len(hist) : i # j => hist[i] # hist[j]

InsertedKeys == {hist'[i] : i \in (Len(hist) + 1)..Len(hist')}

ExtraCutOff(input) ==
    \E h \in LoadHeaderTags, e \in LoadExtraTags :
       \E x \in Prefixes(Encode(e)) : x # Encode(e) /\ input = Encode(h) \o x

\* C21: load_next_header returns none only on a header file at its end where a
\* header record would start; a header record followed by an extra record that
\* the end of the stream cuts off yields an error, neither none nor a Header.
C21_NoneOnlyAtRecordBoundary ==
    pres.op = "load_next_header" =>
       /\ pres.ret = [k |-> "Ok", v |-> None] => pres.input = <<>>
       /\ ExtraCutOff(pres.input) => pres.ret.k = "Err"

\* load_next_header has parsed a Dict header record and met the end of the stream
\* inside an Int32 extra record.
C21_Witness ==
    /\ pres.op = "load_next_header"
    /\ pres.input = Encode(EmptyKeyDict) \o <<3, 0, 0>>
    /\ pres.used = Len(pres.input)
    /\ pres.ret.k = "Err"

\* C22: is_compatible_with is the conjunction of three gated checks: equal sample
\* rate exactly for SampleRate, SampleRateAndConvertability, All and Segment;
\* equal dtype exactly for Format, All and Segment; convertible dtype exactly for
\* every level but None and SampleRate. Under None every pair is compatible, and
\* under Format, All and Segment a pair of equal dtype passes the convertibility
\* check.
C22_ThreeGatedChecks ==
    res.op = "is_compatible_with" =>
       /\ res.ret =
            (/\ res.preserve \in {"SampleRate", "SampleRateAndConvertability", "All",
                                  "Segment"}
                  => res.other.samp_rate = res.self.samp_rate
             /\ res.preserve \in {"Format", "All", "Segment"}
                  => res.other.dtype = res.self.dtype
             /\ res.preserve \notin {"None", "SampleRate"}
                  => converts_to_dtype(res.other.dtype, res.self.dtype))
       /\ res.preserve = "None" => res.ret
       /\ (res.preserve \in {"Format", "All", "Segment"}
             /\ res.other.dtype = res.self.dtype)
            => (/\ converts_to_dtype(res.other.dtype, res.self.dtype)
                /\ res.ret = (res.preserve = "Format"
                                \/ res.other.samp_rate = res.self.samp_rate))

\* Two Short and Int headers of one rate have been refused under Format.
C22_Witness ==
    /\ res.op = "is_compatible_with"
    /\ res.preserve = "Format"
    /\ res.self.dtype = "Int"
    /\ res.other.dtype = "Short"
    /\ res.other.samp_rate = res.self.samp_rate
    /\ ~res.ret

\* C23: self being the destination header and other the header governing the
\* cursor, under Convertability and SampleRateAndConvertability the pair is
\* compatible only if the destination's dtype converts to the current one's.
C23_DestinationConvertsToCurrent ==
    (res.op = "is_compatible_with"
       /\ res.preserve \in {"Convertability", "SampleRateAndConvertability"}
       /\ res.ret)
      => converts_to_dtype(res.self.dtype, res.other.dtype)

\* The same header but for the fields is_compatible_with is said not to depend on.
Essential(h) == PairHeader(h.samp_rate, h.dtype, FALSE, 0)

\* C30: the result of is_compatible_with is a function of preserve and of the
\* sample rate and dtype of the two headers; a real and a complex segment of one
\* dtype and rate are compatible under All.
C30_DependsOnRateAndDtypeOnly ==
    res.op = "is_compatible_with" =>
       /\ res.ret = is_compatible_with(Essential(res.self), Essential(res.other),
                                       res.preserve)
       /\ (res.preserve = "All" /\ res.self.dtype = res.other.dtype
             /\ res.self.samp_rate = res.other.samp_rate)
            => res.ret

\* A real and a complex Short segment of one rate, differing in every other field,
\* have been found compatible under All.
C30_Witness ==
    /\ res.op = "is_compatible_with"
    /\ res.preserve = "All"
    /\ res.self.dtype = "Short"
    /\ res.other.dtype = "Short"
    /\ res.self.samp_rate = res.other.samp_rate
    /\ res.self.cplx # res.other.cplx
    /\ res.self.size # res.other.size
    /\ res.self.rx_time # res.other.rx_time
    /\ res.self.extra_dict # res.other.extra_dict
    /\ res.ret

\* Samples of a header: its byte length over element size x (2 if complex else 1).
SamplesOf(h) == h.bytes \div (h.size * (IF h.cplx THEN 2 ELSE 1))

\* rx_time of h extrapolated at h's rate to its last sample; h's rx_time when h
\* has no sample.
LastSampleTime(h) ==
    IF SamplesOf(h) = 0 THEN h.rx_time
    ELSE h.rx_time + (SamplesOf(h) - 1) * samp_dur_of(h.samp_rate)

\* C24: self.is_continuation_of(other) is true exactly when self.rx_time is within
\* 0.1 x other's sample duration of other's rx_time extrapolated to other's last
\* sample (other's rx_time itself when other has no sample).
C24_WithinTenthOfOthersDuration ==
    res.op = "is_continuation_of" =>
       res.ret = (10 * AbsDiff(res.self.rx_time, LastSampleTime(res.other))
                     <= samp_dur_of(res.other.samp_rate))

\* A segment of the faster rate has been accepted two ticks after the last sample
\* of a segment of the slower rate: within a tenth of the prior segment's sample
\* duration, beyond a tenth of its own.
C24_Witness ==
    /\ res.op = "is_continuation_of"
    /\ SamplesOf(res.other) >= 2
    /\ res.other.samp_rate = 1
    /\ res.self.samp_rate = 2
    /\ res.self.rx_time = LastSampleTime(res.other) + 2
    /\ res.ret

\* C25: a segment whose rx_time is the prior segment's rx_time plus
\* num_samples x sample_duration is a continuation of the prior segment, for
\* every prior segment of at least one sample.
C25_SeamlessIsContinuation ==
    (res.op = "is_continuation_of"
       /\ SamplesOf(res.other) >= 1
       /\ res.self.rx_time = res.other.rx_time
                               + SamplesOf(res.other) * samp_dur_of(res.other.samp_rate))
      => res.ret

\* The data type the format gives each type code.
TypeOfCode(c) ==
    CASE c = 0 -> "Byte" [] c = 1 -> "Short" [] c = 2 -> "Int" [] c = 3 -> "Float"
      [] c = 4 -> "Double"

\* C26: a header whose type code is 0, 1, 2, 3 or 4 is constructed, with dtype
\* Byte, Short, Int, Float or Double; a header of any other code is rejected with
\* the wrong-data-type error.
C26_FiveTypeCodesAccepted ==
    (res.op = "get_header_for_byte" /\ hpos = 1) =>
       IF hfile[1].type \in 0..4
       THEN /\ res.ret.k = "Ok"
            /\ DOMAIN store = {0}
            /\ store[0].dtype = TypeOfCode(hfile[1].type)
       ELSE res.ret = [k |-> "Err", e |-> "WrongDataType"]

\* C27: a header whose data length is not a multiple of
\* element size x (2 if complex else 1) is rejected at construction, and no such
\* header is held by the storage.
C27_NonDividingLengthRejected ==
    /\ (res.op = "get_header_for_byte" /\ hpos = 1
          /\ hfile[1].bytes % (hfile[1].size * (IF hfile[1].cplx THEN 2 ELSE 1)) # 0)
         => res.ret.k = "Err"
    /\ \A k \in DOMAIN store :
          store[k].bytes % (store[k].size * (IF store[k].cplx THEN 2 ELSE 1)) = 0

\* C28: every read_samples call ends: no iteration of its loop leaves the reader
\* where an earlier iteration of the same call found it with no sample copied
\* in between.
C28_ReadSamplesTerminates ==
    res.op = "read_samples" => res.ret.k # "Hang"

\* The cursor is at or past the end of the segment governing it, that segment is
\* the last one indexed, and the header stream has no further header.
AtEndOfStream ==
    /\ Alive
    /\ hpos = Len(hfile)
    /\ DOMAIN store # {}
    /\ HeaderStorage_get_header_for_byte(store, pos) = Some(store[Max(DOMAIN store)])
    /\ store[Max(DOMAIN store)].abs_pos + store[Max(DOMAIN store)].bytes <= pos

\* C29: a read_samples call made with the current segment exhausted and no
\* further header returns 0 and leaves the cursor where it was.
C29_ReadAtEndKeepsCursor ==
    [][(AtEndOfStream /\ res'.op = "read_samples" /\ res'.len >= 1) =>
          /\ res'.ret = [k |-> "Ok", n |-> 0]
          /\ pos' = pos]_vars

====
